---- MODULE Spec2Model ----
(***************************************************************************)
(* WebSpectrometer: the Spectragraph view state (calibration, display      *)
(* range, zoom), the ImageProcessor column extraction and the click        *)
(* handlers of main.js that drive them.                                    *)
(*                                                                         *)
(* Numbers.  JavaScript numbers are modelled as integers at fixed scales:  *)
(* a wavelength is held in tenths of a nanometre (405.4 nm is 4054), an    *)
(* intensity in millionths (1.0 is 1000000).  A quotient is rounded to the *)
(* nearest unit of its scale where the code keeps a double.  Where the     *)
(* code divides by the calibration slope the slope is kept as the exact    *)
(* fraction (w2 - w1) / (x2 - x1), never rounded.  NaN is a value of its   *)
(* own with the arithmetic and comparisons of IEEE 754.                    *)
(***************************************************************************)
EXTENDS Integers, Sequences, FiniteSets, TLC

VARIABLES
    calibration,      \* Spectragraph.calibration: point1 (x1, w1), point2 (x2, w2)
    displayRange,     \* Spectragraph.displayRange {start, end}
    sensorRangeShown, \* the text of #sensorRange, as the {start, end} it shows
    canvasWidth,      \* Spectragraph.canvas.width
    isReversed,       \* Spectragraph.isReversed
    data,             \* Spectragraph.data (corrected intensities)
    rawData,          \* Spectragraph.rawData
    region,           \* the ROI fields #startX, #stopX, #startY, #stopY
    frame,            \* the pixels of ImageProcessor.canvas after drawImage
    isPaused,         \* cameraManager.isPaused
    loopAlive,        \* the requestAnimationFrame loop of main.js is armed
    mousePosition,    \* Spectragraph.mousePosition.x, NoMouse when it is null
    wheelEvents,      \* wheel events handled so far (bounded in the guards)
    qeProfile,        \* ImageProcessor.qeProfile (src/unnamed/part_005)
    lastFrame,        \* ImageProcessor.lastFrame, NoFrame when it is null
    processorPaused,  \* ImageProcessor.isPaused
    pauseLatch,       \* the local isPaused of the second pause listener of main.js
    isRecording,      \* RecordingManager.isRecording
    timerArmed,       \* the interval of RecordingManager.intervalId is running
    spectralData,     \* RecordingManager.spectralData
    recordRawVideo,   \* the #recordRawVideo checkbox
    streamActive,     \* cameraManager.stream is not null
    recorderState,    \* RecordingManager.mediaRecorder: "none", "recording", "inactive"
    savedCSV,         \* the CSV text of the last saveRecording, NoCSV before it
    startResult,      \* what the last startRecording returned, "none" before it
    recordedChunks,   \* RecordingManager.recordedChunks
    finalChunkPending, \* a stopped MediaRecorder has its last dataavailable queued
    savedVideo,       \* the chunks of the video of the last saveRecording, NoVideo if none
    exported,         \* what the last exportToCSV did: the alert and the file
    peak,             \* what the last findNearestPeak returned, NoPeak before it
    pauseButtonText,  \* the text of #pauseButton
    pendingStarts,    \* the startRecording calls suspended at their await, as the
                      \* outcomes of their checkRecordingPossible, oldest first
    leakedTimers      \* the intervals still running whose id intervalId no longer holds

pipelineVars == <<qeProfile, lastFrame, processorPaused, pauseLatch>>

graphVars == <<calibration, displayRange, sensorRangeShown, canvasWidth, isReversed,
               region, frame, isPaused, loopAlive, mousePosition, wheelEvents>>

outputVars == <<exported, peak, pauseButtonText>>

asyncVars == <<pendingStarts, leakedTimers>>

captureVars == <<recordedChunks, finalChunkPending, savedVideo>>

recorderVars == <<isRecording, timerArmed, spectralData, recordRawVideo, streamActive,
                  recorderState, savedCSV, startResult, captureVars>>

vars == <<calibration, displayRange, sensorRangeShown, canvasWidth, isReversed,
          data, rawData, region, frame, isPaused, loopAlive, mousePosition, wheelEvents,
          qeProfile, lastFrame, processorPaused, pauseLatch,
          isRecording, timerArmed, spectralData, recordRawVideo, streamActive,
          recorderState, savedCSV, startResult,
          recordedChunks, finalChunkPending, savedVideo, exported, peak, pauseButtonText,
          pendingStarts, leakedTimers>>

(***************************************************************************)
(* Program constants.                                                      *)
(***************************************************************************)
SensorWidth == 1920
InitDataLen == 960
ClampMargin == 500
MinAccepted == 500
ByteMax == 255
IntensityOne == 1000000
SearchRadius == 10
MinPeakHeight == 50000
EfficiencyOne == 1000

(***************************************************************************)
(* The spec's constants (section 4.4 and 9): MIN_SPAN = 100 nm and         *)
(* MAX_SPAN = 2000 nm, in tenths of a nanometre.                           *)
(***************************************************************************)
MIN_SPAN == 1000
MAX_SPAN == 20000

(***************************************************************************)
(* Bounds of the model.                                                    *)
(***************************************************************************)
MaxWheel == 2
MaxZoomRun == 24
MaxX == 2
MaxY == 2
MaxFrames == 2
MaxChunks == 2

MaxPending == 2

MaxLeaked == 2
MaxCursor == 32

(***************************************************************************)
(* JavaScript arithmetic with NaN.                                         *)
(***************************************************************************)
NaN == -2000000000

PosInfinity == 2000000000

NegInfinity == -2000000001

IsNaN(v) == v = NaN

JsSub(a, b) == IF IsNaN(a) \/ IsNaN(b) THEN NaN ELSE a - b

JsAdd(a, b) == IF IsNaN(a) \/ IsNaN(b) THEN NaN ELSE a + b

\* Math.max and Math.min return NaN when an argument is NaN.
JsMax(a, b) == IF IsNaN(a) \/ IsNaN(b) THEN NaN ELSE IF a >= b THEN a ELSE b

JsMin(a, b) == IF IsNaN(a) \/ IsNaN(b) THEN NaN ELSE IF a <= b THEN a ELSE b

\* a >= b is false when an operand is NaN.
JsGe(a, b) == ~IsNaN(a) /\ ~IsNaN(b) /\ a >= b

\* isNaN(v)
JsIsNaN(v) == IsNaN(v)

\* Math.round(a / b), b # 0: the nearest integer, a half rounded up.
RoundDiv(a, b) ==
    IF b > 0 THEN (2 * a + b) \div (2 * b)
    ELSE (2 * (0 - a) + (0 - b)) \div (2 * (0 - b))

(***************************************************************************)
(* Spectragraph (src/js/spectragraph.js).                                  *)
(***************************************************************************)
DefaultCalibration == [x1 |-> 1623, w1 |-> 4054, x2 |-> 1238, w2 |-> 6116]

DefaultDisplayRange == [start |-> 3500, end |-> 12000]

\* Both calibration wavelengths are numbers and the pixels differ: the slope
\* (w2 - w1) / (x2 - x1) is a finite number.
FiniteSlope(cal) == ~IsNaN(cal.w1) /\ ~IsNaN(cal.w2) /\ cal.x1 # cal.x2

SlopeNum(cal) == cal.w2 - cal.w1

SlopeDen(cal) == cal.x2 - cal.x1

\* startWavelength = point1.wavelength - point1.x * wavelengthPerPixel, as the
\* numerator of a fraction over SlopeDen(cal).
StartWavelengthNum(cal) == cal.w1 * SlopeDen(cal) - cal.x1 * SlopeNum(cal)

\* The smaller of the fractions a / d and b / d, as a numerator over d.
MinOver(a, b, d) == IF (a <= b) = (d > 0) THEN a ELSE b

MaxOver(a, b, d) == IF (a <= b) = (d > 0) THEN b ELSE a

\* calculateSensorRange without Math.min and Math.max: the wavelengths of
\* x = 0 and x = 1920 in that order.
calculateSensorRangeUnordered(cal) ==
    IF ~FiniteSlope(cal) THEN [start |-> NaN, end |-> NaN]
    ELSE LET d == SlopeDen(cal)
             startWavelength == StartWavelengthNum(cal)
             endWavelength == startWavelength + SensorWidth * SlopeNum(cal)
         IN  [start |-> RoundDiv(startWavelength, d), end |-> RoundDiv(endWavelength, d)]

\* calculateSensorRange with the far end at x = 1919 instead of x = 1920.
calculateSensorRangeLastPixel(cal) ==
    IF ~FiniteSlope(cal) THEN [start |-> NaN, end |-> NaN]
    ELSE LET d == SlopeDen(cal)
             startWavelength == StartWavelengthNum(cal)
             endWavelength == startWavelength + (SensorWidth - 1) * SlopeNum(cal)
             start == MinOver(startWavelength, endWavelength, d)
             end == MaxOver(startWavelength, endWavelength, d)
         IN  [start |-> RoundDiv(start, d), end |-> RoundDiv(end, d)]

(* calculateSensorRange.  With a NaN wavelength every intermediate is NaN.  *)
(* With point1.x = point2.x (and pixels >= 0) the slope is +-Infinity or    *)
(* NaN, startWavelength is -+Infinity or NaN and endWavelength, their sum   *)
(* with 1920 * slope, is NaN; Math.min and Math.max then return NaN.        *)
calculateSensorRange(cal) ==
    IF ~FiniteSlope(cal) THEN [start |-> NaN, end |-> NaN]
    ELSE LET d == SlopeDen(cal)
             startWavelength == StartWavelengthNum(cal)
             endWavelength == startWavelength + SensorWidth * SlopeNum(cal)
             start == MinOver(startWavelength, endWavelength, d)
             end == MaxOver(startWavelength, endWavelength, d)
         IN  [start |-> RoundDiv(start, d), end |-> RoundDiv(end, d)]

\* calculateWavelengths(calibration)[pixel] = point1.wavelength
\* + (pixel - point1.x) * wavelengthPerPixel, as a numerator over SlopeDen(cal).
pixelToWavelengthNum(cal, pixel) ==
    cal.w1 * SlopeDen(cal) + (pixel - cal.x1) * SlopeNum(cal)

\* The data index counted from point1.wavelength instead of startWavelength.
wavelengthToIndexFromPoint1(cal, wavelengthNum) ==
    LET num == wavelengthNum - cal.w1 * SlopeDen(cal)
    IN  IF SlopeNum(cal) = 0
        THEN IF num = 0 THEN NaN ELSE IF num > 0 THEN PosInfinity ELSE NegInfinity
        ELSE RoundDiv(num, SlopeNum(cal))

(* The data index of a wavelength in drawHoverInfo and draw:                *)
(* Math.round((wavelength - startWavelength) / wavelengthStep), the         *)
(* wavelength given as a numerator over SlopeDen(cal).  A zero step gives   *)
(* 0 / 0 = NaN or a quotient of +-Infinity.                                 *)
wavelengthToIndex(cal, wavelengthNum) ==
    LET num == wavelengthNum - StartWavelengthNum(cal)
    IN  IF SlopeNum(cal) = 0
        THEN IF num = 0 THEN NaN ELSE IF num > 0 THEN PosInfinity ELSE NegInfinity
        ELSE RoundDiv(num, SlopeNum(cal))

\* updateDisplayRange(start, end): the display range it leaves.
updateDisplayRange(cal, dr, start, end) ==
    LET sensorRange == calculateSensorRange(cal)
        newStart == JsMax(sensorRange.start,
                          JsMin(start, JsSub(sensorRange.end, ClampMargin)))
        newEnd == JsMin(sensorRange.end,
                        JsMax(end, JsAdd(sensorRange.start, ClampMargin)))
    IN  IF JsGe(JsSub(newEnd, newStart), MinAccepted)
        THEN [start |-> newStart, end |-> newEnd]
        ELSE dr

\* wavelengthToX(wavelength), with len = data.length.
wavelengthToX(dr, len, wavelength) ==
    RoundDiv((wavelength - dr.start) * (len - 1), dr.end - dr.start)

\* xToWavelength(x), with width = canvas.width.
xToWavelength(dr, width, x) ==
    dr.start + RoundDiv(x * (dr.end - dr.start), width)

\* currentRange / zoomFactor and currentRange * zoomFactor, zoomFactor = 1.1.
ZoomedRange(currentRange, zoomIn) ==
    IF zoomIn THEN RoundDiv(currentRange * 10, 11)
    ELSE RoundDiv(currentRange * 11, 10)

\* handleZoom(mouseX, deltaY): the display range it leaves.
handleZoom(cal, dr, width, mouseX, deltaY) ==
    LET sensorRange == calculateSensorRange(cal)
        zoomIn == deltaY < 0
        mouseWavelength == xToWavelength(dr, width, mouseX)
        currentRange == dr.end - dr.start
        newRange == ZoomedRange(currentRange, zoomIn)
        \* mouseRatio * newRange, mouseRatio = (mouseWavelength - start) / currentRange
        ratioTimesNew == RoundDiv((mouseWavelength - dr.start) * newRange, currentRange)
        start0 == mouseWavelength - ratioTimesNew
        end0 == start0 + newRange
        newStart == JsMax(sensorRange.start,
                          JsMin(start0, JsSub(sensorRange.end, ClampMargin)))
        newEnd == JsMin(sensorRange.end,
                        JsMax(end0, JsAdd(sensorRange.start, ClampMargin)))
    IN  IF JsGe(JsSub(newEnd, newStart), MinAccepted)
        THEN [start |-> newStart, end |-> newEnd]
        ELSE dr

(***************************************************************************)
(* ImageProcessor (src/js/imageProcessor.js).  The canvas is modelled on a *)
(* window of MaxX columns by MaxY rows; a pixel is <<r, g, b, a>>.         *)
(***************************************************************************)
Window == (0 .. MaxX - 1) \X (0 .. MaxY - 1)

BlankPixel == <<0, 0, 0, 0>>

\* The canvas pixel at (x, y): transparent black outside the canvas.
PixelAt(fr, x, y) == IF <<x, y>> \in Window THEN fr[<<x, y>>] ELSE BlankPixel

\* getImageData(...).data read one byte early: data[i] for data[i + 1], the
\* red byte for the green one.
ImageDataByteRed(fr, sx, sy, sw, i) ==
    LET q == (i - 1) \div 4
    IN  PixelAt(fr, sx + (q % sw), sy + (q \div sw))[((i - 1) % 4) + 1]

\* getImageData(sx, sy, sw, sh).data[i] for sw > 0 and sh > 0: row-major,
\* four bytes a pixel.
ImageDataByte(fr, sx, sy, sw, i) ==
    LET q == i \div 4
    IN  PixelAt(fr, sx + (q % sw), sy + (q \div sw))[(i % 4) + 1]

\* The inner loop of processFrame: the sum of data[(y * width + x) * 4 + 1]
\* for y from y0 to height - 1.
RECURSIVE ColumnSum(_, _, _, _, _, _)
ColumnSum(fr, roi, width, height, x, y) ==
    IF y >= height THEN 0
    ELSE ImageDataByte(fr, roi.startX, roi.startY, width, (y * width + x) * 4 + 1)
         + ColumnSum(fr, roi, width, height, x, y + 1)

\* avgIntensity = sum / (height * 255), in millionths.
AvgIntensity(sum, height) == RoundDiv(sum * IntensityOne, height * ByteMax)

(* processFrame(sourceCtx) with the ROI fields roi.  getImageData throws    *)
(* IndexSizeError for a zero width or height; new Array(width) throws       *)
(* RangeError for a negative width.  With a negative height the row loop   *)
(* does not run and every column is 0 / (height * 255) = 0.                 *)
processFrame(fr, roi) ==
    LET width == roi.stopX - roi.startX
        height == roi.stopY - roi.startY
    IN  IF width <= 0 \/ height = 0 THEN [threw |-> TRUE, spectrum |-> <<>>]
        ELSE [threw |-> FALSE,
              spectrum |-> [x \in 1 .. width |->
                  AvgIntensity(ColumnSum(fr, roi, width, height, x - 1, 0), height)]]

(***************************************************************************)
(* The ImageProcessor of src/unnamed/part_005: the one with the methods    *)
(* main.js calls (setPaused, setQEProfile, lastFrame, updateOverlay).      *)
(* An ImageData is [fr, ox, oy, width, height]: the width by height pixels *)
(* of the canvas fr from (ox, oy).                                          *)
(***************************************************************************)
Abs(n) == IF n < 0 THEN 0 - n ELSE n

\* getImageData(sx, sy, sw, sh): a negative sw or sh takes the rectangle to the
\* left of or above (sx, sy); a zero sw or sh throws IndexSizeError.
getImageData(fr, sx, sy, sw, sh) ==
    [fr |-> fr,
     ox |-> IF sw < 0 THEN sx + sw ELSE sx,
     oy |-> IF sh < 0 THEN sy + sh ELSE sy,
     width |-> Abs(sw), height |-> Abs(sh)]

\* updateRegionFromInputs: parseInt(field) || default, the defaults being 0
\* and the canvas size (1920 by 1080, here the window).
updateRegionFromInputs(roi) ==
    [startX |-> roi.startX,
     stopX |-> IF roi.stopX = 0 THEN MaxX ELSE roi.stopX,
     startY |-> roi.startY,
     stopY |-> IF roi.stopY = 0 THEN MaxY ELSE roi.stopY]

\* ImageProcessor.qeData: null in the constructor and never assigned.
qeDataLoaded == FALSE

\* getQECorrection(wavelength): 1.0, in thousandths.
getQECorrection(wavelength) == EfficiencyOne

\* The sum over y of data[(y * width + x) * 4 + 1] / 255, times 255.
RECURSIVE ImageColumnSum(_, _, _)
ImageColumnSum(img, x, y) ==
    IF y >= img.height THEN 0
    ELSE ImageDataByte(img.fr, img.ox, img.oy, img.width, (y * img.width + x) * 4 + 1)
         + ImageColumnSum(img, x, y + 1)

\* intensities[x] with a correction of one half applied whatever the profile.
CorrectedIntensityAlways(profile, pixel, avgIntensity) ==
    RoundDiv(avgIntensity * (EfficiencyOne \div 2), EfficiencyOne)

\* intensities[x] of processImageData: avgIntensity * qeCorrection when a
\* profile is selected and qeData is loaded, avgIntensity otherwise.
CorrectedIntensity(profile, pixel, avgIntensity) ==
    IF profile # "none" /\ qeDataLoaded
    THEN RoundDiv(avgIntensity * getQECorrection(pixel), EfficiencyOne)
    ELSE avgIntensity

\* processImageData(imageData): the rawIntensity and intensity columns of the
\* spectralData it hands to updateSpectralData.
processImageData(img, roi, profile) ==
    LET avg(x) == IF img.height > 0
                  THEN AvgIntensity(ImageColumnSum(img, x, 0), img.height) ELSE 0
    IN  [raw |-> [x \in 1 .. img.width |-> avg(x - 1)],
         corrected |-> [x \in 1 .. img.width |->
                           CorrectedIntensity(profile, (x - 1) + roi.startX, avg(x - 1))]]

\* processFrame(sourceCtx) of part_005: an exception of getImageData is caught
\* and logged; threw tells that nothing was handed to the spectragraph.
processFrameGuarded(fr, roi, profile) ==
    LET r == updateRegionFromInputs(roi)
        sw == r.stopX - r.startX
        sh == r.stopY - r.startY
    IN  IF sw = 0 \/ sh = 0 THEN [threw |-> TRUE, raw |-> <<>>, corrected |-> <<>>]
        ELSE LET out == processImageData(getImageData(fr, r.startX, r.startY, sw, sh),
                                         r, profile)
             IN  [threw |-> FALSE, raw |-> out.raw, corrected |-> out.corrected]

(***************************************************************************)
(* Inputs.                                                                 *)
(***************************************************************************)
NoMouse == -1

\* ImageProcessor.lastFrame = null
NoFrame == <<>>

\* No saveRecording has run.
NoCSV == [header |-> "none", rows |-> <<>>]

NoVideo == <<"none">>

NoExport == [alerted |-> FALSE, threw |-> FALSE, csv |-> NoCSV]

NoPeak == [x |-> -1, value |-> -1]

\* What the calibration fields can hold when Apply Calibration is clicked:
\* the defaults, a rising calibration with sensor range 200..1200 nm, the
\* same pixel twice, and an empty wavelength field (parseFloat gives NaN).
CalForms ==
    { DefaultCalibration,
      [x1 |-> 0, w1 |-> 2000, x2 |-> 960, w2 |-> 7000],
      [x1 |-> 1238, w1 |-> 4054, x2 |-> 1238, w2 |-> 6116],
      [x1 |-> 1623, w1 |-> NaN, x2 |-> 1238, w2 |-> 6116] }

\* A grid of calibration fields, for the properties of the calibration alone.
GridPixels == {0, 1238, 1623, 1919}

GridWaves == {2000, 4054, 6116, NaN}

CalGrid == [x1 : GridPixels, w1 : GridWaves, x2 : GridPixels, w2 : GridWaves]

\* What the range fields can hold when Update Range is clicked.
RangeInputs == {NaN, 1000, 1500, 3000, 8000}

CanvasWidths == {480, 960}

CursorXs(width) == {0, width \div 2, width}

FramePixels == {<<128, 128, 128, 255>>, <<0, 255, 64, 255>>}

BlankFrame == [p \in Window |-> BlankPixel]

\* Frames of one colour, for the specifications that are not about extraction.
UniformFrames == {[p \in Window |-> px] : px \in FramePixels}

\* Frames of two colours that change along the columns and along the rows,
\* the pixel at the origin being of either colour.
PatternFrames ==
    { [p \in Window |->
          IF (cols[p[1]] = rows[p[2]]) = (p # <<0, 0>> \/ ~corner)
          THEN <<128, 128, 128, 255>> ELSE <<0, 255, 64, 255>>] :
        cols \in [0 .. MaxX - 1 -> BOOLEAN], rows \in [0 .. MaxY - 1 -> BOOLEAN],
        corner \in BOOLEAN }

\* Frames of one colour, and frames whose first row or first column is of
\* the other colour.
StripedFrames ==
    UniformFrames \cup
    { [p \in Window |-> IF p[2] = 0 THEN <<0, 255, 64, 255>> ELSE <<128, 128, 128, 255>>],
      [p \in Window |-> IF p[1] = 0 THEN <<0, 255, 64, 255>> ELSE <<128, 128, 128, 255>>] }

FullRegion == [startX |-> 0, stopX |-> MaxX, startY |-> 0, stopY |-> MaxY]

Regions == [startX : 0 .. MaxX, stopX : 0 .. MaxX, startY : 0 .. MaxY, stopY : 0 .. MaxY]

\* What the ROI fields can hold: the whole window, its last columns over its
\* first row, a zero width, a zero height, and stopX left of startX.
RegionForms ==
    { FullRegion,
      [startX |-> 1, stopX |-> MaxX, startY |-> 0, stopY |-> 1],
      [startX |-> 1, stopX |-> 1, startY |-> 0, stopY |-> MaxY],
      [startX |-> 0, stopX |-> MaxX, startY |-> 1, stopY |-> 1],
      [startX |-> MaxX, stopX |-> 1, startY |-> 0, stopY |-> MaxY] }

\* The options of the #qeProfile select.
Profiles == {"none", "generated"}

(***************************************************************************)
(* The state after the modules are loaded: the Spectragraph constructor,   *)
(* the ImageProcessor constructor and the page's fields.  The ROI fields   *)
(* cover the whole canvas window.                                          *)
(***************************************************************************)
Constructed ==
    /\ calibration = DefaultCalibration
    /\ displayRange = DefaultDisplayRange
    /\ sensorRangeShown = calculateSensorRange(DefaultCalibration)
    /\ canvasWidth \in CanvasWidths
    /\ isReversed = FALSE
    /\ data = [i \in 1 .. InitDataLen |-> 0]
    /\ rawData = [i \in 1 .. InitDataLen |-> 0]
    /\ frame = BlankFrame
    /\ isPaused = FALSE
    /\ loopAlive = TRUE
    /\ wheelEvents = 0
    /\ qeProfile = "none"
    /\ lastFrame = NoFrame
    /\ processorPaused = FALSE
    /\ pauseLatch = FALSE
    /\ isRecording = FALSE
    /\ timerArmed = FALSE
    /\ spectralData = <<>>
    /\ recordRawVideo = TRUE
    /\ streamActive = FALSE
    /\ recorderState = "none"
    /\ savedCSV = NoCSV
    /\ startResult = "none"
    /\ recordedChunks = <<>>
    /\ finalChunkPending = FALSE
    /\ savedVideo = NoVideo
    /\ exported = NoExport
    /\ peak = NoPeak
    /\ pauseButtonText = "Pause"
    /\ pendingStarts = <<>>
    /\ leakedTimers = 0

Init == Constructed /\ region = FullRegion /\ mousePosition = NoMouse

(***************************************************************************)
(* Handlers.                                                               *)
(***************************************************************************)
\* Spectragraph.updateSpectralData(spectralData): data takes the intensity
\* column and rawData the rawIntensity column.
updateSpectralData(corrected, raw) == data' = corrected /\ rawData' = raw

\* Spectragraph.updateCalibration(point1, point2): the calibration it leaves.
updateCalibration(cal, form) == form

(* A click on Apply Calibration runs both listeners of main.js: the first  *)
(* (lines 56-66) calls updateCalibration with whatever the fields hold; the *)
(* second (lines 93-124) calls it again when no field is NaN and alerts     *)
(* otherwise; with the processor paused it then calls updateOverlay, which  *)
(* runs processFrame on the canvas when a frame has been stored.            *)
CalibrateWith(form) ==
    LET first == updateCalibration(calibration, form)
        valid == ~JsIsNaN(form.x1) /\ ~JsIsNaN(form.w1)
                 /\ ~JsIsNaN(form.x2) /\ ~JsIsNaN(form.w2)
        second == IF valid THEN updateCalibration(first, form) ELSE first
        r == processFrameGuarded(frame, region, qeProfile)
    IN  /\ calibration' = second
        /\ sensorRangeShown' = calculateSensorRange(second)
        /\ IF valid /\ processorPaused /\ lastFrame # NoFrame
           THEN /\ lastFrame' = frame
                /\ IF r.threw THEN UNCHANGED <<data, rawData>>
                   ELSE updateSpectralData(r.corrected, r.raw)
           ELSE UNCHANGED <<data, rawData, lastFrame>>
        /\ UNCHANGED <<displayRange, canvasWidth, isReversed, region,
                       frame, isPaused, loopAlive, mousePosition, wheelEvents,
                       qeProfile, processorPaused, pauseLatch, recorderVars, outputVars, asyncVars>>

CalibrateClick == \E form \in CalForms : CalibrateWith(form)

CalibrateGrid == \E form \in CalGrid : CalibrateWith(form)

(* A click on Update Range runs both listeners of main.js: the first       *)
(* (lines 48-52) calls updateDisplayRange(start, end); the second (lines    *)
(* 127-135) calls it again when neither is NaN.                             *)
UpdateRangeWith(start, end) ==
    LET first == updateDisplayRange(calibration, displayRange, start, end)
        second == IF ~JsIsNaN(start) /\ ~JsIsNaN(end)
                  THEN updateDisplayRange(calibration, first, start, end)
                  ELSE first
    IN  /\ displayRange' = second
        /\ UNCHANGED <<calibration, sensorRangeShown, canvasWidth, isReversed, data,
                       rawData, region, frame, isPaused, loopAlive, mousePosition,
                       wheelEvents, pipelineVars, recorderVars, outputVars, asyncVars>>

UpdateRangeClick ==
    \E start \in RangeInputs, end \in RangeInputs : UpdateRangeWith(start, end)

\* handleMouseMove(event)
MouseMove ==
    \E x \in CursorXs(canvasWidth) :
        /\ mousePosition' = x
        /\ UNCHANGED <<calibration, displayRange, sensorRangeShown, canvasWidth,
                       isReversed, data, rawData, region, frame, isPaused, loopAlive,
                       wheelEvents, pipelineVars, recorderVars, outputVars, asyncVars>>

\* handleWheel(event), the pointer being where the last mousemove left it.
WheelEvent(deltaY) ==
    /\ mousePosition # NoMouse
    /\ displayRange' = handleZoom(calibration, displayRange, canvasWidth,
                                  mousePosition, deltaY)
    /\ wheelEvents' = wheelEvents + 1
    /\ UNCHANGED <<calibration, sensorRangeShown, canvasWidth, isReversed, data,
                   rawData, region, frame, isPaused, loopAlive, mousePosition,
                   pipelineVars, recorderVars, outputVars, asyncVars>>

Wheel == wheelEvents < MaxWheel /\ \E deltaY \in {-100, 100} : WheelEvent(deltaY)

WheelRun == wheelEvents < MaxZoomRun /\ \E deltaY \in {-100, 100} : WheelEvent(deltaY)

\* A change of the #reverseSpectrum box: setReversed(checked).
ReverseToggle ==
    /\ isReversed' = ~isReversed
    /\ UNCHANGED <<calibration, displayRange, sensorRangeShown, canvasWidth, data,
                   rawData, region, frame, isPaused, loopAlive, mousePosition,
                   wheelEvents, pipelineVars, recorderVars, outputVars, asyncVars>>

\* updateData that stores the corrected array and keeps the old raw one.
updateDataCorrectedOnly(newData, newRaw) == data' = newData /\ UNCHANGED rawData

\* Spectragraph.updateData(newData, rawData)
updateData(newData, newRaw) == data' = newData /\ rawData' = newRaw

(* processVideoFrame of main.js (lines 11-16), once per display tick.  An  *)
(* exception of processFrame leaves before requestAnimationFrame is called  *)
(* again.                                                                   *)
TickWith(frames) ==
    /\ loopAlive
    /\ IF isPaused
       THEN UNCHANGED <<frame, data, rawData, loopAlive>>
       ELSE \E fr \in frames :
                LET r == processFrame(fr, region)
                IN  /\ frame' = fr
                    /\ IF r.threw
                       THEN loopAlive' = FALSE /\ UNCHANGED <<data, rawData>>
                       ELSE updateData(r.spectrum, r.spectrum) /\ UNCHANGED loopAlive
    /\ UNCHANGED <<calibration, displayRange, sensorRangeShown, canvasWidth,
                   isReversed, region, isPaused, mousePosition, wheelEvents,
                   pipelineVars, recorderVars, outputVars, asyncVars>>

Tick == TickWith(UniformFrames)

TickAny == TickWith(PatternFrames)

\* The frame loop without the test of cameraManager.isPaused.
TickGuardedUnpaused(frames) ==
    /\ loopAlive
    /\ \E fr \in frames :
           LET r == processFrameGuarded(fr, region, qeProfile)
           IN  /\ frame' = fr
               /\ lastFrame' = fr
               /\ IF r.threw THEN UNCHANGED <<data, rawData>>
                  ELSE updateSpectralData(r.corrected, r.raw)
    /\ UNCHANGED <<calibration, displayRange, sensorRangeShown, canvasWidth,
                   isReversed, region, isPaused, loopAlive, mousePosition, wheelEvents,
                   qeProfile, processorPaused, pauseLatch, recorderVars, outputVars, asyncVars>>

(* processVideoFrame of main.js with the ImageProcessor of part_005:       *)
(* clearRect, drawImage, then processFrame, which stores lastFrame and      *)
(* hands the ROI to processImageData.                                       *)
TickGuarded(frames) ==
    /\ loopAlive
    /\ IF isPaused
       THEN UNCHANGED <<frame, lastFrame, data, rawData>>
       ELSE \E fr \in frames :
                LET r == processFrameGuarded(fr, region, qeProfile)
                IN  /\ frame' = fr
                    /\ lastFrame' = fr
                    /\ IF r.threw THEN UNCHANGED <<data, rawData>>
                       ELSE updateSpectralData(r.corrected, r.raw)
    /\ UNCHANGED <<calibration, displayRange, sensorRangeShown, canvasWidth,
                   isReversed, region, isPaused, loopAlive, mousePosition, wheelEvents,
                   qeProfile, processorPaused, pauseLatch, recorderVars, outputVars, asyncVars>>

PipelineTick == TickGuarded(StripedFrames)

UniformTick == TickGuarded(UniformFrames)

(* A change of the #qeProfile select (main.js lines 214-221): setQEProfile, *)
(* then processImageData(lastFrame) when the processor is paused and a      *)
(* frame has been stored.  lastFrame is the whole canvas.                   *)
QEProfileChangeTo(profile) ==
    /\ qeProfile' = profile
    /\ IF processorPaused /\ lastFrame # NoFrame
       THEN LET out == processImageData(getImageData(lastFrame, 0, 0, MaxX, MaxY),
                                        updateRegionFromInputs(region), profile)
            IN  updateSpectralData(out.corrected, out.raw)
       ELSE UNCHANGED <<data, rawData>>
    /\ UNCHANGED <<calibration, displayRange, sensorRangeShown, canvasWidth,
                   isReversed, region, frame, isPaused, loopAlive, mousePosition,
                   wheelEvents, lastFrame, processorPaused, pauseLatch, recorderVars, outputVars, asyncVars>>

QEProfileChange == \E profile \in Profiles : QEProfileChangeTo(profile)

\* pauseButton.textContent = isPaused ? 'Resume' : 'Pause'
ButtonText(paused) == IF paused THEN "Resume" ELSE "Pause"

(* A click on the pause button runs both listeners of main.js: the first   *)
(* (lines 33-37) inverts cameraManager.isPaused; the second (lines 84-90)   *)
(* inverts its own flag and sets the text, the processor and the camera to  *)
(* it.                                                                      *)
PauseClick ==
    /\ pauseLatch' = ~pauseLatch
    /\ pauseButtonText' = ButtonText(~pauseLatch)
    /\ processorPaused' = ~pauseLatch
    /\ isPaused' = ~pauseLatch
    /\ UNCHANGED <<calibration, displayRange, sensorRangeShown, canvasWidth,
                   isReversed, data, rawData, region, frame, loopAlive, mousePosition,
                   wheelEvents, qeProfile, lastFrame, recorderVars, exported, peak,
                   asyncVars>>

(* A click on Capture Frame (main.js lines 41-44): cameraManager.setPaused   *)
(* (true) and the text 'Resume'.  The second listener (lines 249-251) calls  *)
(* imageProcessor.captureFrame, which no ImageProcessor defines, and throws. *)
CaptureClick ==
    /\ isPaused' = TRUE
    /\ pauseButtonText' = "Resume"
    /\ UNCHANGED <<calibration, displayRange, sensorRangeShown, canvasWidth,
                   isReversed, data, rawData, region, frame, loopAlive, mousePosition,
                   wheelEvents, pipelineVars, recorderVars, exported, peak, asyncVars>>

(* A click on Return to Live View: the listener of setupFileHandlers        *)
(* (imageProcessor.js lines 33-37) calls cameraManager.setPaused(false); the *)
(* listener of main.js (lines 244-246) calls imageProcessor.returnToLive,    *)
(* which no ImageProcessor defines, and throws.                              *)
ReturnToLiveClick ==
    /\ isPaused' = FALSE
    /\ UNCHANGED <<calibration, displayRange, sensorRangeShown, canvasWidth,
                   isReversed, data, rawData, region, frame, loopAlive, mousePosition,
                   wheelEvents, pipelineVars, recorderVars, outputVars, asyncVars>>

\* The user edits the ROI fields.
RegionInput ==
    \E roi \in RegionForms :
        /\ region' = roi
        /\ UNCHANGED <<calibration, displayRange, sensorRangeShown, canvasWidth,
                       isReversed, data, rawData, frame, isPaused, loopAlive,
                       mousePosition, wheelEvents, pipelineVars, recorderVars, outputVars, asyncVars>>

(***************************************************************************)
(* Spectragraph.findNearestPeak (src/js/spectragraph.js, lines 383-413).   *)
(***************************************************************************)
\* a > b, false when an operand is undefined (NaN stands for undefined).
JsGt(a, b) == ~IsNaN(a) /\ ~IsNaN(b) /\ a > b

\* this.data[dataIndex], undefined outside the array.
DataAt(d, dataIndex) ==
    IF dataIndex >= 0 /\ dataIndex < Len(d) THEN d[dataIndex + 1] ELSE NaN

\* Math.floor((x / width) * this.data.length)
PeakDataIndex(width, d, x) ==
    IF x >= 0 THEN (x * Len(d)) \div width ELSE 0 - ((width - 1 - x * Len(d)) \div width)

\* The test of the loop body for the candidate at canvas position x.
PeakCandidate(width, d, x, peakValue) ==
    LET dataIndex == PeakDataIndex(width, d, x)
        value == DataAt(d, dataIndex)
    IN  /\ x >= 0 /\ x < width
        /\ dataIndex > 1 /\ dataIndex < Len(d) - 2
        /\ value > d[dataIndex - 1] /\ value > d[dataIndex]
        /\ value > d[dataIndex + 2] /\ value > d[dataIndex + 3]
        /\ JsGt(value, peakValue)
        /\ value > MinPeakHeight

\* The loop over offset = -searchRadius .. searchRadius, best being
\* {x: peakX, value: peakValue} so far.
RECURSIVE PeakScan(_, _, _, _, _)
PeakScan(width, d, mouseX, offset, best) ==
    IF offset > SearchRadius THEN best
    ELSE LET x == mouseX + offset
         IN  PeakScan(width, d, mouseX, offset + 1,
                      IF PeakCandidate(width, d, x, best.value)
                      THEN [x |-> x, value |-> DataAt(d, PeakDataIndex(width, d, x))]
                      ELSE best)

\* findNearestPeak(mouseX)
findNearestPeak(width, d, mouseX) ==
    PeakScan(width, d, mouseX, 0 - SearchRadius,
             [x |-> mouseX, value |-> DataAt(d, PeakDataIndex(width, d, mouseX))])

\* A call of findNearestPeak with the cursor at one of the first positions of
\* the canvas.
PeakQueryAt(mouseX) ==
    /\ peak' = findNearestPeak(canvasWidth, data, mouseX)
    /\ UNCHANGED <<graphVars, data, rawData, pipelineVars, recorderVars, exported,
                   pauseButtonText, asyncVars>>

PeakQuery == \E mouseX \in 0 .. MaxCursor : PeakQueryAt(mouseX)

\* A spectrum with one maximum of 1.0 at index k, falling by 0.0005 a point
\* on both sides.
PeakProfile(length, k) ==
    [i \in 1 .. length |-> IntensityOne - Abs(i - 1 - k) * 500]

PeakLengths == {480, 960}

PeakIndices == {2, 10, 11}

\* updateData with such a spectrum.
StorePeakProfile ==
    \E length \in PeakLengths, k \in PeakIndices :
        /\ updateData(PeakProfile(length, k), PeakProfile(length, k))
        /\ UNCHANGED <<graphVars, pipelineVars, recorderVars, outputVars, asyncVars>>

PeakShapes == {"twoPeaks", "shoulder"}

\* A spectrum of 0.1 with a peak of 0.3 at index 5 and either a second peak
\* of 0.6 at index 12 or, from index 9 on, a slope rising by 0.02 a point
\* from 0.29 up to 1.0.
ShapeProfile(length, shape) ==
    [i \in 1 .. length |->
        LET j == i - 1
            slope == 110000 + j * 20000
        IN  IF j = 5 THEN 300000
            ELSE IF shape = "twoPeaks" THEN (IF j = 12 THEN 600000 ELSE 100000)
            ELSE IF j > 8 THEN (IF slope > IntensityOne THEN IntensityOne ELSE slope)
            ELSE 100000]

\* updateData with such a spectrum.
StoreShapeProfile ==
    \E length \in PeakLengths, shape \in PeakShapes :
        /\ updateData(ShapeProfile(length, shape), ShapeProfile(length, shape))
        /\ UNCHANGED <<graphVars, pipelineVars, recorderVars, outputVars, asyncVars>>

(***************************************************************************)
(* Spectragraph.exportToCSV (src/js/spectragraph.js, lines 624-662).       *)
(***************************************************************************)
ExportHeader ==
    "Pixel Position,Wavelength (nm),Raw Intensity (0-1),QE Corrected Intensity (0-1)"

\* pixelPos = Math.round((i / this.data.length) * 1920), i counted from 0.
ExportPixel(length, i) == RoundDiv(i * SensorWidth, length)

\* (startWavelength + pixelPos * wavelengthStep).toFixed(2), in hundredths of
\* a nanometre; NaN stands for every result that is not a finite number.
ExportWavelength(cal, pixelPos) ==
    IF ~FiniteSlope(cal) THEN NaN
    ELSE RoundDiv((StartWavelengthNum(cal) + pixelPos * SlopeNum(cal)) * 10, SlopeDen(cal))

\* exportToCSV(): an alert when data is empty; a TypeError, and no file, when
\* rawData is shorter than data (rawData[i] is undefined); the file otherwise.
exportToCSV(cal, corrected, raw) ==
    IF Len(corrected) = 0 THEN [alerted |-> TRUE, threw |-> FALSE, csv |-> NoCSV]
    ELSE IF Len(raw) < Len(corrected)
    THEN [alerted |-> FALSE, threw |-> TRUE, csv |-> NoCSV]
    ELSE [alerted |-> FALSE, threw |-> FALSE,
          csv |-> [header |-> ExportHeader,
                   rows |-> [i \in 1 .. Len(corrected) |->
                       <<ExportPixel(Len(corrected), i - 1),
                         ExportWavelength(cal, ExportPixel(Len(corrected), i - 1)),
                         raw[i], corrected[i]>>]]]

\* A click on Export CSV (main.js lines 27-29 and 209-211).
ExportClick ==
    /\ exported' = exportToCSV(calibration, data, rawData)
    /\ UNCHANGED <<graphVars, data, rawData, pipelineVars, recorderVars, peak,
                   pauseButtonText, asyncVars>>

(***************************************************************************)
(* RecordingManager (src/js/imageProcessor.js, lines 113-337).             *)
(***************************************************************************)
\* Spectragraph.getCurrentData(): both arrays cut to the shorter length.  The
\* model's arrays hold numbers only, which `arr[i] || 0` returns unchanged.
getCurrentData(corrected, raw) ==
    LET length == IF Len(corrected) <= Len(raw) THEN Len(corrected) ELSE Len(raw)
    IN  [raw |-> SubSeq(raw, 1, length), corrected |-> SubSeq(corrected, 1, length)]

\* (range.start + i * wavelengthStep).toFixed(2), in hundredths of a nanometre,
\* wavelengthStep being (range.end - range.start) / (dataLength - 1).  With one
\* data point the step is a division by zero and 0 * step is NaN.
SampleWavelength(range, dataLength, i) ==
    IF IsNaN(range.start) \/ IsNaN(range.end) \/ dataLength = 1 THEN NaN
    ELSE RoundDiv((range.start * (dataLength - 1) + i * (range.end - range.start)) * 10,
                  dataLength - 1)

\* The currentData object of collectSpectralData.  The intensities of the
\* model are already rounded to millionths, the digits toFixed(6) keeps.
RecordedFrame(timestamp, current, range) ==
    [timestamp |-> timestamp,
     wavelengths |-> [i \in 1 .. Len(current.raw) |->
                         SampleWavelength(range, Len(current.raw), i - 1)],
     rawIntensities |-> current.raw,
     correctedIntensities |-> current.corrected]

\* RecordingManager.collectSpectralData()
collectSpectralData(timestamp) ==
    LET current == getCurrentData(data, rawData)
        currentData == RecordedFrame(timestamp, current, calculateSensorRange(calibration))
    IN  IF Len(currentData.wavelengths) > 0
        THEN spectralData' = Append(spectralData, currentData)
        ELSE UNCHANGED spectralData

CSVHeader == "Timestamp (ms),Wavelength (nm),Raw Intensity,Corrected Intensity"

\* The rows that generateCSV writes for one frame.
FrameRows(f) ==
    [i \in 1 .. Len(f.wavelengths) |->
        <<f.timestamp, f.wavelengths[i], f.rawIntensities[i], f.correctedIntensities[i]>>]

RECURSIVE AllRows(_, _)
AllRows(frames, k) ==
    IF k > Len(frames) THEN <<>> ELSE FrameRows(frames[k]) \o AllRows(frames, k + 1)

\* RecordingManager.generateCSV()
generateCSV(frames) ==
    IF Len(frames) = 0 THEN [header |-> "No data recorded", rows |-> <<>>]
    ELSE [header |-> CSVHeader, rows |-> AllRows(frames, 1)]

\* `!data.raw.length === 0` of checkRecordingPossible: the negation is a
\* boolean, and a boolean is never strictly equal to the number 0.
NotLengthEqualsZero(raw) == FALSE

\* RecordingManager.checkRecordingPossible(): TRUE when it returns, FALSE when
\* it throws.  typeSupported is MediaRecorder.isTypeSupported(...).
checkRecordingPossible(typeSupported) ==
    LET current == getCurrentData(data, rawData)
    IN  /\ ~NotLengthEqualsZero(current.raw)
        /\ recordRawVideo => (streamActive /\ typeSupported)

\* What `new MediaRecorder(stream, ...)` followed by start(1000) can do.
RecorderOutcomes == {"started", "constructorThrew", "startThrew"}

\* startRecording that starts the sampling timer before the raw recorder.
startRecordingTimerFirst(typeSupported, outcome) ==
    IF ~checkRecordingPossible(typeSupported)
    THEN /\ startResult' = "false"
         /\ UNCHANGED <<isRecording, timerArmed, spectralData, recorderState,
                        recordedChunks>>
    ELSE /\ spectralData' = <<>>
         /\ recordedChunks' = <<>>
         /\ timerArmed' = TRUE
         /\ IF recordRawVideo /\ outcome # "started"
            THEN /\ recorderState' = IF outcome = "constructorThrew" THEN recorderState
                                     ELSE "inactive"
                 /\ startResult' = "false"
                 /\ UNCHANGED isRecording
            ELSE /\ recorderState' = IF recordRawVideo THEN "recording" ELSE recorderState
                 /\ isRecording' = TRUE
                 /\ startResult' = "true"

\* RecordingManager.startRecording()
startRecording(typeSupported, outcome) ==
    IF ~checkRecordingPossible(typeSupported)
    THEN /\ startResult' = "false"
         /\ UNCHANGED <<isRecording, timerArmed, spectralData, recorderState,
                        recordedChunks>>
    ELSE /\ spectralData' = <<>>
         /\ recordedChunks' = <<>>
         /\ IF recordRawVideo /\ outcome # "started"
            THEN /\ recorderState' = IF outcome = "constructorThrew" THEN recorderState
                                     ELSE "inactive"
                 /\ startResult' = "false"
                 /\ UNCHANGED <<isRecording, timerArmed>>
            ELSE /\ recorderState' = IF recordRawVideo THEN "recording" ELSE recorderState
                 /\ timerArmed' = TRUE
                 /\ isRecording' = TRUE
                 /\ startResult' = "true"

\* stopRecording without the clearInterval.
stopRecordingTimerKept ==
    /\ UNCHANGED timerArmed
    /\ recorderState' = IF recorderState = "recording" THEN "inactive" ELSE recorderState
    /\ isRecording' = FALSE
    /\ savedCSV' = generateCSV(spectralData)
    /\ finalChunkPending' = (finalChunkPending \/ recorderState = "recording")
    /\ savedVideo' = IF Len(recordedChunks) > 0 THEN recordedChunks ELSE NoVideo
    /\ UNCHANGED <<spectralData, startResult, recordedChunks>>

\* RecordingManager.stopRecording(), saveRecording() included.
stopRecording ==
    /\ timerArmed' = FALSE
    /\ recorderState' = IF recorderState = "recording" THEN "inactive" ELSE recorderState
    /\ isRecording' = FALSE
    /\ savedCSV' = generateCSV(spectralData)
    /\ finalChunkPending' = (finalChunkPending \/ recorderState = "recording")
    /\ savedVideo' = IF Len(recordedChunks) > 0 THEN recordedChunks ELSE NoVideo
    /\ UNCHANGED <<spectralData, startResult, recordedChunks>>

\* A click on the record button while not recording: toggleRecording calls
\* startRecording.
StartClick ==
    /\ ~isRecording
    /\ \E typeSupported \in BOOLEAN, outcome \in RecorderOutcomes :
           startRecording(typeSupported, outcome)
    /\ UNCHANGED <<graphVars, outputVars, asyncVars, data, rawData, pipelineVars,
                   recordRawVideo, streamActive,
                   savedCSV, finalChunkPending, savedVideo>>

\* A click on the record button while recording: toggleRecording calls
\* stopRecording.
StopClick ==
    /\ isRecording
    /\ stopRecording
    /\ UNCHANGED <<graphVars, outputVars, asyncVars, data, rawData, pipelineVars,
                   recordRawVideo, streamActive>>

\* RecordingManager.toggleRecording()
RecordClick == StartClick \/ StopClick

(* toggleRecording up to the await of startRecording: the button is read as *)
(* not recording, checkRecordingPossible runs to its end and the call is     *)
(* suspended with its outcome.  Nothing of the recorder has changed yet.     *)
BeginStart ==
    /\ ~isRecording
    /\ Len(pendingStarts) < MaxPending
    /\ \E typeSupported \in BOOLEAN :
           pendingStarts' = Append(pendingStarts, checkRecordingPossible(typeSupported))
    /\ UNCHANGED <<graphVars, outputVars, data, rawData, pipelineVars, recorderVars,
                   leakedTimers>>

(* startRecording after its await (lines 145-183), passed being whether the *)
(* check returned.  setInterval stores the new id in intervalId: an interval *)
(* that was running under the old id keeps running.                          *)
startRecordingResumed(passed, outcome) ==
    IF ~passed
    THEN /\ startResult' = "false"
         /\ UNCHANGED <<isRecording, timerArmed, spectralData, recorderState,
                        recordedChunks, leakedTimers>>
    ELSE /\ spectralData' = <<>>
         /\ recordedChunks' = <<>>
         /\ IF recordRawVideo /\ outcome # "started"
            THEN /\ recorderState' = IF outcome = "constructorThrew" THEN recorderState
                                     ELSE "inactive"
                 /\ startResult' = "false"
                 /\ UNCHANGED <<isRecording, timerArmed, leakedTimers>>
            ELSE /\ recorderState' = IF recordRawVideo THEN "recording" ELSE recorderState
                 /\ leakedTimers' = IF timerArmed THEN leakedTimers + 1 ELSE leakedTimers
                 /\ timerArmed' = TRUE
                 /\ isRecording' = TRUE
                 /\ startResult' = "true"

\* The oldest suspended startRecording runs to its end.
ResumeStart ==
    /\ pendingStarts # <<>>
    /\ leakedTimers < MaxLeaked
    /\ pendingStarts' = Tail(pendingStarts)
    /\ \E outcome \in RecorderOutcomes : startRecordingResumed(Head(pendingStarts), outcome)
    /\ UNCHANGED <<graphVars, outputVars, data, rawData, pipelineVars, recordRawVideo,
                   streamActive, savedCSV, finalChunkPending, savedVideo>>

\* The timestamp of the last recorded frame, 0 when there is none.
LastTimestamp ==
    IF spectralData = <<>> THEN 0 ELSE spectralData[Len(spectralData)].timestamp

\* The interval timer fires: collectSpectralData, the clock reading one unit
\* after the last recorded frame.
SampleTick ==
    /\ timerArmed
    /\ Len(spectralData) < MaxFrames
    /\ collectSpectralData(LastTimestamp + 1)
    /\ UNCHANGED <<graphVars, outputVars, asyncVars, data, rawData, pipelineVars,
                   isRecording, timerArmed,
                   recordRawVideo, streamActive, recorderState, savedCSV, startResult,
                   captureVars>>

\* The user ticks or unticks #recordRawVideo.
RawVideoToggle ==
    /\ recordRawVideo' = ~recordRawVideo
    /\ UNCHANGED <<graphVars, outputVars, asyncVars, data, rawData, pipelineVars,
                   isRecording, timerArmed,
                   spectralData, streamActive, recorderState, savedCSV, startResult,
                   captureVars>>

\* CameraManager.switchCamera(): getUserMedia gives a stream, or throws and
\* this.stream keeps what it held.
CameraSwitch ==
    /\ streamActive' \in {TRUE, streamActive}
    /\ UNCHANGED <<graphVars, outputVars, asyncVars, data, rawData, pipelineVars,
                   isRecording, timerArmed,
                   spectralData, recordRawVideo, recorderState, savedCSV, startResult,
                   captureVars>>

\* CameraManager.stopStream()
StopStream ==
    /\ streamActive' = FALSE
    /\ UNCHANGED <<graphVars, outputVars, asyncVars, data, rawData, pipelineVars,
                   isRecording, timerArmed,
                   spectralData, recordRawVideo, recorderState, savedCSV, startResult,
                   captureVars>>

\* The sizes of the blobs of the dataavailable events.
ChunkSizes == {0, 1}

\* mediaRecorder.ondataavailable for a timeslice of the running recorder: the
\* blob is pushed when its size is above 0.
ChunkDelivery ==
    /\ recorderState = "recording"
    /\ Len(recordedChunks) < MaxChunks
    /\ \E size \in ChunkSizes :
           recordedChunks' = IF size > 0 THEN Append(recordedChunks, "slice")
                             ELSE recordedChunks
    /\ UNCHANGED <<graphVars, outputVars, asyncVars, data, rawData, pipelineVars,
                   isRecording, timerArmed,
                   spectralData, recordRawVideo, streamActive, recorderState, savedCSV,
                   startResult, finalChunkPending, savedVideo>>

\* The dataavailable event that MediaRecorder.stop() queues: it runs as a task
\* of its own, after stopRecording has returned.
FinalChunkDelivery ==
    /\ finalChunkPending
    /\ finalChunkPending' = FALSE
    /\ \E size \in ChunkSizes :
           recordedChunks' = IF size > 0 THEN Append(recordedChunks, "final")
                             ELSE recordedChunks
    /\ UNCHANGED <<graphVars, outputVars, asyncVars, data, rawData, pipelineVars,
                   isRecording, timerArmed,
                   spectralData, recordRawVideo, streamActive, recorderState, savedCSV,
                   startResult, savedVideo>>

\* The lengths of the spectra stored below: one and two points, the initial
\* length, the sensor width and one more than the sensor width.
SpectrumLengths == {1, 2, InitDataLen, SensorWidth, SensorWidth + 1}

\* processFrame stores the spectrum of a ROI of the given width: value i of
\* the arrays is told apart from the others by its size.
StoreSpectrum ==
    \E width \in SpectrumLengths :
        /\ updateData([i \in 1 .. width |-> 2 * i], [i \in 1 .. width |-> i])
        /\ UNCHANGED <<graphVars, pipelineVars, recorderVars, outputVars, asyncVars>>

\* Arrays handed to Spectragraph.updateData, which stores what it is given:
\* empty ones, ones of different lengths and ones of equal length.
DataCalls ==
    { [newData |-> <<>>, rawData |-> <<>>],
      [newData |-> <<250000>>, rawData |-> <<500000, 750000>>],
      [newData |-> <<250000, 125000>>, rawData |-> <<500000>>],
      [newData |-> <<250000, 125000>>, rawData |-> <<500000, 750000>>] }

\* A call of spectragraph.updateData(newData, rawData).
UpdateDataCall ==
    \E call \in DataCalls :
        /\ updateData(call.newData, call.rawData)
        /\ UNCHANGED <<graphVars, pipelineVars, recorderVars, outputVars, asyncVars>>

(***************************************************************************)
(* Specifications.                                                         *)
(***************************************************************************)
\* The view state under calibration, range, pointer, wheel and frame events.
Next == CalibrateClick \/ UpdateRangeClick \/ MouseMove \/ Wheel \/ Tick

Spec == Init /\ [][Next]_vars

\* A run of wheel events with the pointer at rest, from the initial view.
InitZoom == Constructed /\ region = FullRegion /\ mousePosition \in CursorXs(canvasWidth)

NextZoom == WheelRun

SpecZoom == InitZoom /\ [][NextZoom]_vars

\* The same run with the display reversed or not.
NextReversedZoom == WheelRun \/ ReverseToggle

SpecReversedZoom == InitZoom /\ [][NextReversedZoom]_vars

\* The calibration alone, over a grid of field values.
NextCal == CalibrateGrid

SpecCal == Init /\ [][NextCal]_vars

\* The pipeline of part_005 under ticks, ROI edits, profile changes and pauses.
NextPipeline == PipelineTick \/ RegionInput \/ QEProfileChange \/ PauseClick \/ CaptureClick

SpecPipeline == Init /\ [][NextPipeline]_vars

\* The same with the frame loop driving either ImageProcessor, the one of
\* src/js/imageProcessor.js or the one of part_005: what holds of every
\* behaviour here holds with one as with the other.
NextFrames ==
    Tick \/ UniformTick \/ RegionInput \/ QEProfileChange \/ PauseClick \/ CaptureClick

SpecFrames == Init /\ [][NextFrames]_vars

\* The frame loop with the pause and capture buttons and the view, ROI and
\* profile actions of the user.
InitPaused ==
    Constructed /\ canvasWidth = 960 /\ region = FullRegion /\ mousePosition = canvasWidth \div 2

\* Apply Calibration with the fields at (0, 200 nm), (960, 700 nm).
CalibrateRising == CalibrateWith([x1 |-> 0, w1 |-> 2000, x2 |-> 960, w2 |-> 7000])

\* Update Range with the fields at 300 and 800 nm.
UpdateRangeVisible == UpdateRangeWith(3000, 8000)

\* The first wheel event over the graph.
WheelOnce == wheelEvents = 0 /\ \E deltaY \in {-100, 100} : WheelEvent(deltaY)

NextPaused ==
    \/ UniformTick \/ PauseClick \/ CaptureClick
    \/ CalibrateRising \/ UpdateRangeVisible \/ WheelOnce
    \/ RegionInput \/ QEProfileChange

SpecPaused == InitPaused /\ [][NextPaused]_vars

\* The three buttons that pause and resume, over a running frame loop.
NextPauseButtons ==
    UniformTick \/ PauseClick \/ CaptureClick \/ ReturnToLiveClick \/ RegionInput

SpecPauseButtons == InitPaused /\ [][NextPauseButtons]_vars

\* The recorder under clicks of the record button, timer ticks, the raw-video
\* box, the camera stream and stored spectra.
InitRecorder ==
    Constructed /\ canvasWidth = 960 /\ region = FullRegion /\ mousePosition = NoMouse

NextRecorder ==
    \/ RecordClick \/ SampleTick \/ RawVideoToggle
    \/ CameraSwitch \/ StopStream \/ UpdateDataCall

SpecRecorder == InitRecorder /\ [][NextRecorder]_vars

\* Peak searches over synthetic spectra, on canvases of both widths.
InitPeak == Constructed /\ region = FullRegion /\ mousePosition = NoMouse

NextPeak == StorePeakProfile \/ StoreShapeProfile \/ PeakQuery

SpecPeak == InitPeak /\ [][NextPeak]_vars

\* Exports under the calibrations of the form and spectra of several lengths.
NextExport == ExportClick \/ CalibrateClick \/ StoreSpectrum

SpecExport == InitRecorder /\ [][NextExport]_vars

\* Stops and exports with nothing captured.
NextNoData == RecordClick \/ RawVideoToggle \/ UpdateDataCall \/ ExportClick

SpecNoData == InitRecorder /\ [][NextNoData]_vars

\* The record button with the start in its two parts, so that a click can be
\* handled while a start is suspended.
NextAsyncStart ==
    \/ BeginStart \/ ResumeStart \/ StopClick
    \/ RawVideoToggle \/ CameraSwitch

SpecAsyncStart == InitRecorder /\ [][NextAsyncStart]_vars

\* The raw capture: the record button, the stream, the raw-video box and the
\* dataavailable events of the MediaRecorder.
NextCapture ==
    \/ RecordClick \/ RawVideoToggle \/ CameraSwitch
    \/ ChunkDelivery \/ FinalChunkDelivery

SpecCapture == InitRecorder /\ [][NextCapture]_vars

\* Extraction alone: any ROI inside the window, patterned frames.
InitExtract == Constructed /\ region \in Regions /\ mousePosition = NoMouse

NextExtract == TickAny

SpecExtract == InitExtract /\ [][NextExtract]_vars

(***************************************************************************)
(* Claims.                                                                 *)
(***************************************************************************)
Span(dr) == dr.end - dr.start

\* dr lies inside the sensor range of cal (false when the sensor range is NaN).
InsideSensorRange(cal, dr) ==
    LET sensorRange == calculateSensorRange(cal)
    IN  JsGe(dr.start, sensorRange.start) /\ JsGe(sensorRange.end, dr.end)

(* C1: from the initial display range, after any sequence of handleZoom    *)
(* calls the display span is within [MIN_SPAN, MAX_SPAN] and the display   *)
(* range is inside the sensor range.                                       *)
C1_ZoomKeepsSpanAndSensorRange ==
    /\ Span(displayRange) >= MIN_SPAN
    /\ Span(displayRange) <= MAX_SPAN
    /\ InsideSensorRange(calibration, displayRange)

(* C2: in every reachable state, after any interleaving of calibration,    *)
(* range, zoom and frame events, start < end, the span is at least         *)
(* MIN_SPAN and both bounds are inside the sensor range of the calibration *)
(* in force.                                                               *)
C2_DisplayRangeInvariant ==
    /\ displayRange.start < displayRange.end
    /\ Span(displayRange) >= MIN_SPAN
    /\ JsGe(displayRange.start, calculateSensorRange(calibration).start)
    /\ JsGe(calculateSensorRange(calibration).end, displayRange.end)

(* C3: updateDisplayRange(start, end) with start >= end or a NaN argument  *)
(* leaves displayRange unchanged, whatever the sensor range.               *)
C3_RejectsUnorderedOrNaN ==
    [][\A start \in RangeInputs, end \in RangeInputs :
          ((JsIsNaN(start) \/ JsIsNaN(end) \/ start >= end)
             /\ UpdateRangeWith(start, end))
          => displayRange' = displayRange]_vars

\* v clamped into the sensor range.
ClampInto(sensorRange, v) == JsMax(sensorRange.start, JsMin(v, sensorRange.end))

(* C4: updateDisplayRange(start, end) with start < end whose bounds, each   *)
(* clamped into the sensor range, are less than MIN_SPAN apart leaves       *)
(* displayRange unchanged (as updateDisplayRange(100, 150) with the sensor  *)
(* range 200..1200).                                                        *)
C4_RejectsNarrowAfterClamp ==
    [][\A start \in RangeInputs, end \in RangeInputs :
          LET sensorRange == calculateSensorRange(calibration)
          IN  (/\ ~JsIsNaN(start) /\ ~JsIsNaN(end) /\ start < end
               /\ ~JsIsNaN(sensorRange.start)
               /\ ClampInto(sensorRange, end) - ClampInto(sensorRange, start) < MIN_SPAN
               /\ UpdateRangeWith(start, end))
              => displayRange' = displayRange]_vars

(* C5: for every calibration with point1.x # point2.x, whatever the sign of *)
(* the slope, the sensor range that calculateSensorRange returns has        *)
(* start <= end.                                                            *)
C5_SensorRangeOrdered ==
    FiniteSlope(calibration) =>
        /\ sensorRangeShown = calculateSensorRange(calibration)
        /\ sensorRangeShown.start <= sensorRangeShown.end

C5_Witness ==
    /\ FiniteSlope(calibration)
    /\ calibration # DefaultCalibration
    /\ calibration.x2 < calibration.x1
    /\ SlopeNum(calibration) > 0
    /\ sensorRangeShown.start < sensorRangeShown.end

(* C6, as amended: with point1 = (1623, 405.4 nm) and point2 = (1238,       *)
(* 611.6 nm) the sensor range, rounded to one decimal, is 246.3..1274.7 nm. *)
WorkedCalibration == [x1 |-> 1623, w1 |-> 4054, x2 |-> 1238, w2 |-> 6116]

RoundTrip(cal, p) == wavelengthToIndex(cal, pixelToWavelengthNum(cal, p))

WithinOne(i, p) ==
    /\ ~IsNaN(i) /\ i # PosInfinity /\ i # NegInfinity
    /\ i - p <= 1 /\ p - i <= 1

(* C7, as amended: for every calibration with point1.x # point2.x and       *)
(* point1.wavelength # point2.wavelength and every pixel p in 0..1919, the  *)
(* wavelength of p maps back to p (within 1).                               *)
C7_RoundTrip ==
    (FiniteSlope(calibration) /\ SlopeNum(calibration) # 0) =>
        \A p \in 0 .. SensorWidth - 1 : WithinOne(RoundTrip(calibration, p), p)

C7_Witness ==
    /\ FiniteSlope(calibration) /\ SlopeNum(calibration) < 0
    /\ calibration.x1 < calibration.x2
    /\ RoundTrip(calibration, SensorWidth - 1) = SensorWidth - 1
    /\ pixelToWavelengthNum(calibration, 0) # pixelToWavelengthNum(calibration, 1)

(* C7, as claimed: the same for every calibration with point1.x #           *)
(* point2.x.                                                                *)
C7_Original ==
    FiniteSlope(calibration) =>
        \A p \in 0 .. SensorWidth - 1 : WithinOne(RoundTrip(calibration, p), p)

(* C8: for every wavelength w inside the display range, every canvas width  *)
(* and data length, xToWavelength(wavelengthToX(w)) differs from w by less  *)
(* than 1 nm.                                                               *)
C8_MappingReversible ==
    \A w \in displayRange.start .. displayRange.end :
        LET back == xToWavelength(displayRange, canvasWidth,
                                  wavelengthToX(displayRange, Len(data), w))
        IN  back - w < 10 /\ w - back < 10

(* C9: a calibrate action whose two points have the same pixel, or with a   *)
(* wavelength that is not a number, leaves the stored calibration and the   *)
(* sensor range unchanged.                                                  *)
InvalidCalibration(form) == form.x1 = form.x2 \/ IsNaN(form.w1) \/ IsNaN(form.w2)

C9_RejectsInvalidCalibration ==
    [][\A form \in CalForms :
          (InvalidCalibration(form) /\ CalibrateWith(form))
          => (calibration' = calibration /\ sensorRangeShown' = sensorRangeShown)]_vars

\* The green byte of the canvas pixel (x, y).
Green(fr, x, y) == PixelAt(fr, x, y)[2]

\* The sum of the green bytes of column x over the rows y0 .. y1 - 1.
RECURSIVE GreenSum(_, _, _, _)
GreenSum(fr, x, y0, y1) ==
    IF y0 >= y1 THEN 0 ELSE Green(fr, x, y0) + GreenSum(fr, x, y0 + 1, y1)

NonDegenerate(roi) == roi.stopX > roi.startX /\ roi.stopY > roi.startY

\* A frame has been drawn and processed.
Processed == frame # BlankFrame

(* C10: for every frame and every ROI with stopX > startX and stopY >       *)
(* startY, extraction produces stopX - startX values, value x being the sum *)
(* of the green bytes of column startX + x over the rows startY .. stopY - 1*)
(* divided by rows * 255, so within [0, 1]; rows of 128 give 128 / 255.     *)
C10_ColumnAverages ==
    (Processed /\ NonDegenerate(region)) =>
        /\ Len(rawData) = region.stopX - region.startX
        /\ \A x \in 0 .. Len(rawData) - 1 :
              /\ rawData[x + 1] =
                     RoundDiv(GreenSum(frame, region.startX + x, region.startY,
                                       region.stopY) * IntensityOne,
                              (region.stopY - region.startY) * ByteMax)
              /\ rawData[x + 1] >= 0 /\ rawData[x + 1] <= IntensityOne
              /\ (\A p \in Window : frame[p][2] = 128) => rawData[x + 1] = 501961

C10_Witness ==
    /\ Processed /\ NonDegenerate(region)
    /\ region.stopY - region.startY = 2
    /\ Len(rawData) = 2
    /\ rawData[1] = 750980
    /\ rawData[2] = 501961

(* C11: when the ROI is degenerate (stopX <= startX or stopY <= startY) a   *)
(* frame tick raises no error out of the extractor and leaves the stored    *)
(* raw and corrected arrays empty.                                          *)
C11_DegenerateRoiGivesEmptyFrame ==
    (Processed /\ ~NonDegenerate(region)) =>
        /\ loopAlive
        /\ Len(rawData) = 0
        /\ Len(data) = 0

(* C12: in every reachable state, initially and after any sequence of      *)
(* ticks, profile changes and ROI changes, the stored raw and corrected     *)
(* arrays have the same length.                                             *)
C12_SameLength == Len(data) = Len(rawData)

C12_Witness ==
    /\ Processed /\ loopAlive
    /\ region # FullRegion
    /\ qeProfile = "generated"
    /\ Len(data) = 1 /\ Len(rawData) = 1

(* C13: with the QE profile none, after every tick the corrected intensity  *)
(* equals the raw intensity at every index.                                 *)
C13_NoneProfileKeepsRaw ==
    [][(qeProfile = "none" /\ ~isPaused /\ PipelineTick) =>
          /\ Len(data') = Len(rawData')
          /\ \A i \in 1 .. Len(rawData') : data'[i] = rawData'[i]]_vars

C13_Witness ==
    /\ qeProfile = "none" /\ lastFrame # NoFrame /\ frame = lastFrame
    /\ Len(rawData) = MaxX
    /\ rawData[1] = IntensityOne /\ data[1] = IntensityOne
    /\ rawData[MaxX] = 501961 /\ data[MaxX] = 501961

(* The control points of the Generated profile, (wavelength, efficiency)   *)
(* in tenths of a nanometre and thousandths: 0.5 at 400 nm, 0.8 at 700 nm. *)
GeneratedProfile == <<[w |-> 4000, e |-> 500], [w |-> 7000, e |-> 800]>>

\* efficiency(wavelength): linear between the control points bracketing w,
\* the first or last point's efficiency outside their domain.
RECURSIVE Efficiency(_, _, _)
Efficiency(points, k, w) ==
    IF w <= points[1].w THEN points[1].e
    ELSE IF w >= points[Len(points)].w THEN points[Len(points)].e
    ELSE IF w > points[k + 1].w THEN Efficiency(points, k + 1, w)
    ELSE points[k].e + RoundDiv((w - points[k].w) * (points[k + 1].e - points[k].e),
                                points[k + 1].w - points[k].w)

\* The wavelength of column x of the frame extracted over roi, in tenths.
ColumnWavelength(cal, roi, x) ==
    RoundDiv(pixelToWavelengthNum(cal, x + roi.startX), SlopeDen(cal))

(* C14: with the Generated profile, after a tick the corrected intensity of *)
(* every column is raw * efficiency(wavelength of that column), efficiency  *)
(* being the interpolation over the profile's control points.               *)
C14_CorrectedIsRawTimesEfficiency ==
    [][(qeProfile = "generated" /\ ~isPaused /\ PipelineTick
        /\ ~processFrameGuarded(frame', region, qeProfile).threw) =>
          \A i \in 1 .. Len(rawData') :
              data'[i] = RoundDiv(rawData'[i]
                                  * Efficiency(GeneratedProfile, 1,
                                               ColumnWavelength(calibration,
                                                   updateRegionFromInputs(region), i - 1)),
                                  EfficiencyOne)]_vars

(* C15: a profile change while the pipeline is paused recomputes the stored *)
(* frame from the last captured frame over the same ROI, so with the same   *)
(* length and the same raw values; a profile change while it runs leaves    *)
(* the stored frame as it is.                                               *)
C15_ProfileChangeKeepsRaw ==
    [][\A profile \in Profiles :
          QEProfileChangeTo(profile) =>
              IF isPaused /\ lastFrame # NoFrame
              THEN Len(data') = Len(data) /\ rawData' = rawData
              ELSE data' = data /\ rawData' = rawData]_vars

(* C16: while the pipeline is paused no display tick extracts a frame: a    *)
(* tick leaves the stored frame, the calibration and the display range as   *)
(* they are; the calibration, range, zoom, ROI and profile actions stay     *)
(* enabled.                                                                 *)
C16_PausedTicksExtractNothing ==
    /\ [][(isPaused /\ UniformTick) =>
             UNCHANGED <<data, rawData, frame, lastFrame, calibration, displayRange>>]_vars
    /\ [](isPaused =>
             /\ ENABLED CalibrateRising
             /\ ENABLED UpdateRangeVisible
             /\ ENABLED RegionInput
             /\ ENABLED QEProfileChange
             /\ (wheelEvents = 0 => ENABLED WheelOnce))

C16_Witness ==
    /\ isPaused /\ loopAlive
    /\ lastFrame # NoFrame /\ frame = lastFrame
    /\ wheelEvents > 0 /\ displayRange # DefaultDisplayRange
    /\ calibration # DefaultCalibration

StartSucceeds == StartClick /\ startResult' = "true"

RECURSIVE RowOffset(_, _)
RowOffset(frames, k) ==
    IF k = 1 THEN 0 ELSE RowOffset(frames, k - 1) + Len(frames[k - 1].wavelengths)

\* The CSV holds the points of every frame, frame after frame.
HoldsEveryFrame(csv, frames) ==
    /\ csv.header = IF frames = <<>> THEN "No data recorded" ELSE CSVHeader
    /\ Len(csv.rows) = RowOffset(frames, Len(frames) + 1)
    /\ \A k \in 1 .. Len(frames) :
           \A i \in 1 .. Len(frames[k].wavelengths) :
               csv.rows[RowOffset(frames, k) + i] =
                   <<frames[k].timestamp, frames[k].wavelengths[i],
                     frames[k].rawIntensities[i], frames[k].correctedIntensities[i]>>

(* C20: while no recording runs no frame is appended, whatever fires: the   *)
(* timer is not armed and every step leaves the frames as they are or       *)
(* empties them at a start; while a recording runs the frames only grow at  *)
(* the end; the CSV written at stop holds every frame of the recording in   *)
(* the order recorded.                                                      *)
C20_StopHaltsAndExportsAll ==
    /\ [](~isRecording => ~timerArmed)
    /\ [][~isRecording => (spectralData' = spectralData \/ spectralData' = <<>>)]_vars
    /\ [][(isRecording /\ Len(spectralData') >= Len(spectralData)) =>
             SubSeq(spectralData', 1, Len(spectralData)) = spectralData]_vars
    /\ [][isRecording => Len(spectralData') >= Len(spectralData)]_vars
    /\ [][StopClick => (~isRecording' /\ HoldsEveryFrame(savedCSV', spectralData))]_vars

C20_Witness ==
    /\ ~isRecording /\ ~timerArmed
    /\ Len(spectralData) = MaxFrames
    /\ spectralData[1].rawIntensities # spectralData[MaxFrames].rawIntensities
    /\ savedCSV.header = CSVHeader
    /\ Len(savedCSV.rows) = InitDataLen + 2
    /\ savedCSV.rows[1][1] = 1 /\ savedCSV.rows[Len(savedCSV.rows)][1] = MaxFrames

(* C21: every chunk that the MediaRecorder delivers for a recording, the    *)
(* last one that it emits when it is stopped included, is part of the video *)
(* that stop hands to the download: when the last chunk arrives after the   *)
(* stop, the saved video holds all the chunks.                              *)
C21_StopFlushesRawChunks ==
    [][(FinalChunkDelivery /\ ~isRecording /\ Len(recordedChunks') > Len(recordedChunks)) =>
          savedVideo' = recordedChunks']_vars

(* C22: with nothing captured the user is notified and no file is offered:  *)
(* an export with empty intensity arrays alerts and writes no file, and a   *)
(* recording stopped before any frame was appended offers no CSV.           *)
C22_NothingCapturedNoFile ==
    /\ [][(ExportClick /\ Len(data) = 0 /\ Len(rawData) = 0) =>
             (exported'.alerted /\ exported'.csv = NoCSV)]_vars
    /\ [][(StopClick /\ spectralData = <<>>) => savedCSV' = NoCSV]_vars

\* The calibration slope is a finite number other than 0.
NonDegenerateCalibration(cal) == FiniteSlope(cal) /\ SlopeNum(cal) # 0

SlopePositive(cal) == SlopeNum(cal) * SlopeDen(cal) > 0

(* C23: the export of a spectrum of length N >= 1 under a non-degenerate    *)
(* calibration writes N data rows in index order, their wavelength column   *)
(* strictly increasing when the slope is positive and strictly decreasing   *)
(* when it is negative.                                                     *)
C23_ExportRowsMonotonic ==
    [][(/\ ExportClick
        /\ Len(data) >= 1 /\ Len(rawData) = Len(data)
        /\ NonDegenerateCalibration(calibration)) =>
          LET rows == exported'.csv.rows
          IN  /\ Len(rows) = Len(data)
              /\ \A i \in 1 .. Len(rows) : rows[i][3] = rawData[i] /\ rows[i][4] = data[i]
              /\ \A i \in 1 .. Len(rows) - 1 :
                     IF SlopePositive(calibration) THEN rows[i][2] < rows[i + 1][2]
                     ELSE rows[i][2] > rows[i + 1][2]]_vars

\* The spectrum has its one maximum of 1.0 at index k and falls strictly on
\* both sides.
SinglePeakAt(d, k) ==
    /\ k >= 2 /\ k <= Len(d) - 3
    /\ d[k + 1] = IntensityOne
    /\ \A i \in 1 .. Len(d) - 1 : IF i <= k THEN d[i] < d[i + 1] ELSE d[i] > d[i + 1]

\* The cursor is within the search radius of the canvas position of index k,
\* k * width / length.
WithinRadius(width, d, k, x) ==
    /\ x * Len(d) - k * width <= SearchRadius * Len(d)
    /\ k * width - x * Len(d) <= SearchRadius * Len(d)

(* C24: for a spectrum with one sharp maximum at index k, findNearestPeak    *)
(* returns the position of k, with the value 1.0, for every cursor within   *)
(* the search radius of k, whatever the canvas width and the data length.   *)
C24_SinglePeakFound ==
    [][\A k \in PeakIndices :
          SinglePeakAt(data, k) =>
              \A mouseX \in 0 .. MaxCursor :
                  (WithinRadius(canvasWidth, data, k, mouseX) /\ PeakQueryAt(mouseX)) =>
                      /\ peak'.value = IntensityOne
                      /\ PeakDataIndex(canvasWidth, data, peak'.x) = k]_vars

\* The wavelength drawn under canvas position x (drawHoverInfo, lines
\* 429-432): counted from the end of the range when the display is reversed.
WavelengthUnderCursor(dr, width, reversed, x) ==
    IF reversed THEN dr.end - RoundDiv(x * (dr.end - dr.start), width)
    ELSE dr.start + RoundDiv(x * (dr.end - dr.start), width)

\* The zoom has changed the range and neither bound sits on the sensor range.
AcceptedUnclamped(cal, old, new) ==
    /\ new # old
    /\ new.start > calculateSensorRange(cal).start
    /\ new.end < calculateSensorRange(cal).end

(* C25: a zoom that is accepted and not clamped keeps the wavelength under  *)
(* the cursor where it is (within 0.3 nm of rounding), with the display     *)
(* reversed or not, and multiplies the span by 1.1 for a positive delta and *)
(* divides it by 1.1 for a negative one.                                    *)
C25_ZoomKeepsCursorWavelength ==
    [][\A deltaY \in {-100, 100} :
          (WheelEvent(deltaY) /\ AcceptedUnclamped(calibration, displayRange, displayRange')) =>
              LET before == WavelengthUnderCursor(displayRange, canvasWidth, isReversed,
                                                  mousePosition)
                  after == WavelengthUnderCursor(displayRange', canvasWidth, isReversed,
                                                 mousePosition)
              IN  /\ Abs(after - before) <= 3
                  /\ IF deltaY > 0
                     THEN Abs(10 * Span(displayRange') - 11 * Span(displayRange)) <= 10
                     ELSE Abs(11 * Span(displayRange') - 10 * Span(displayRange)) <= 11]_vars

\* The canvas positions of the window around mouseX whose data value is
\* strictly greater than its two neighbours on each side and above 0.05.
QualifyingCandidates(width, d, mouseX) ==
    {x \in (mouseX - SearchRadius) .. (mouseX + SearchRadius) :
        LET dataIndex == PeakDataIndex(width, d, x)
        IN  /\ x >= 0 /\ x < width
            /\ dataIndex > 1 /\ dataIndex < Len(d) - 2
            /\ \A n \in {-2, -1, 1, 2} : d[dataIndex + 1] > d[dataIndex + 1 + n]
            /\ d[dataIndex + 1] > MinPeakHeight}

CandidateValue(width, d, x) == DataAt(d, PeakDataIndex(width, d, x))

(* C26: when a position of the +-10 pixel window qualifies, findNearestPeak *)
(* returns a qualifying position whose value is the highest among them;     *)
(* when none qualifies it returns the cursor with the value at the cursor.  *)
C26_HighestCandidateReturned ==
    [][\A mouseX \in 0 .. MaxCursor :
          (Len(data) > 0 /\ PeakQueryAt(mouseX)) =>
              LET found == QualifyingCandidates(canvasWidth, data, mouseX)
              IN  IF found = {}
                  THEN peak' = [x |-> mouseX, value |-> CandidateValue(canvasWidth, data, mouseX)]
                  ELSE /\ peak'.x \in found
                       /\ peak'.value = CandidateValue(canvasWidth, data, peak'.x)
                       /\ \A x \in found : CandidateValue(canvasWidth, data, x) <= peak'.value]_vars

(* C27: after any clicks on Pause/Resume, Capture Frame and Return to Live  *)
(* View the camera's and the processor's pause flags are equal and the       *)
(* pause button reads 'Resume' exactly when they are true; one click on the  *)
(* button while the camera is paused lets the frame loop process again.      *)
C27_PauseFlagsAgree ==
    /\ [](/\ isPaused = processorPaused
          /\ (pauseButtonText = "Resume") <=> isPaused)
    /\ [][(PauseClick /\ isPaused) => (~isPaused' /\ ~processorPaused')]_vars

\* The frame that collectSpectralData would append in the current state.
FrameNow == RecordedFrame(0, getCurrentData(data, rawData), calculateSensorRange(calibration))

(* C28: for every data index the wavelength the recorder stores in a frame  *)
(* equals the wavelength exportToCSV writes on the row of that index, under *)
(* the same calibration and for the same arrays.                            *)
C28_RecorderAndExportWavelengths ==
    [][(ExportClick /\ Len(data) >= 1 /\ Len(rawData) = Len(data)) =>
          /\ Len(exported'.csv.rows) = Len(FrameNow.wavelengths)
          /\ \A i \in 1 .. Len(data) :
                 FrameNow.wavelengths[i] = exported'.csv.rows[i][2]]_vars

\* The data index at which drawHoverInfo looks up the wavelength that the
\* export row of pixel position pixelPos carries.
HoverIndexOfRow(cal, pixelPos) ==
    wavelengthToIndex(cal, StartWavelengthNum(cal) + pixelPos * SlopeNum(cal))

(* C29: hover and export agree on what a data index means: the wavelength   *)
(* written on the export row of data[i] is the wavelength at which the      *)
(* hover looks up index i, for every data length.                           *)
C29_HoverAndExportAgree ==
    [][(ExportClick /\ Len(data) >= 1 /\ Len(rawData) = Len(data)
            /\ NonDegenerateCalibration(calibration)) =>
          \A i \in 1 .. Len(data) :
              HoverIndexOfRow(calibration, exported'.csv.rows[i][1]) = i - 1]_vars

\* The sampling intervals that are running.
ActiveTimers == leakedTimers + (IF timerArmed THEN 1 ELSE 0)

====
